---- MODULE Spec2Model ----
(***************************************************************************)
(* Model of the virtual texture tile manager of Celestia                   *)
(* (src/celengine/virtualtex.cpp): the catalog scan that seeds the tile    *)
(* quadtree, the best-match lookup of getTile, the load-on-demand          *)
(* residency step and the usage-cycle counters.                            *)
(***************************************************************************)
EXTENDS Integers, Sequences, FiniteSets, TLC

(***************************************************************************)
(* Bounds of the model                                                     *)
(***************************************************************************)
MaxBaseSplit == 2
MaxTicks == 1
MaxRequested == 2

(***************************************************************************)
(* Program constants                                                       *)
(***************************************************************************)
MaxResolutionLevels == 13

\* the number of addTileToTree calls made on a tree by itself
MaxInserts == 2

(***************************************************************************)
(* Characters and strings: a string is a sequence of one-character strings *)
(***************************************************************************)
Digits == <<"0", "1", "2", "3", "4", "5", "6", "7", "8", "9">>

IsDigit(c) == \E d \in 1..10 : Digits[d] = c

DigitVal(c) == (CHOOSE d \in 1..10 : Digits[d] = c) - 1

IsSpace(c) == c = " "

RECURSIVE FormatNat(_)
FormatNat(n) ==
    IF n < 10 THEN <<Digits[n + 1]>>
    ELSE FormatNat(n \div 10) \o <<Digits[(n % 10) + 1]>>

\* fmt::format("{:d}", n)
FormatInt(n) == IF n < 0 THEN <<"-">> \o FormatNat(0 - n) ELSE FormatNat(n)

\* fmt::format("level{:d}", n)
LevelDir(n) == <<"l", "e", "v", "e", "l">> \o FormatInt(n)

\* fmt::format("{:s}{:d}_{:d}{:s}", prefix, u, v, ext)
TileFileName(prefix, u, v, ext) ==
    prefix \o FormatInt(u) \o <<"_">> \o FormatInt(v) \o ext

\* fmt::format(".{:s}", tileType)
TileExt(tileType) == <<".">> \o tileType

Contains(s, c) == \E k \in 1..Len(s) : s[k] = c

(***************************************************************************)
(* sscanf(str, fmt, &u, &v) for formats made of literal characters,        *)
(* white space and %d conversions.  The result is the sequence of the      *)
(* values assigned; sscanf returns its length.                             *)
(***************************************************************************)
RECURSIVE SkipSpace(_, _)
SkipSpace(s, i) ==
    IF i <= Len(s) /\ IsSpace(s[i]) THEN SkipSpace(s, i + 1) ELSE i

RECURSIVE ScanDigits(_, _, _)
ScanDigits(s, i, acc) ==
    IF i <= Len(s) /\ IsDigit(s[i])
    THEN ScanDigits(s, i + 1, acc * 10 + DigitVal(s[i]))
    ELSE [val |-> acc, next |-> i]

\* one %d conversion at position i: optional white space, optional sign,
\* one or more digits
ScanInt(s, i) ==
    LET j == SkipSpace(s, i)
        signed == j <= Len(s) /\ s[j] \in {"-", "+"}
        k == IF signed THEN j + 1 ELSE j
        d == ScanDigits(s, k, 0)
    IN  IF k <= Len(s) /\ IsDigit(s[k])
        THEN [ok |-> TRUE,
              val |-> IF signed /\ s[j] = "-" THEN 0 - d.val ELSE d.val,
              next |-> d.next]
        ELSE [ok |-> FALSE, val |-> 0, next |-> i]

RECURSIVE ScanF(_, _, _, _, _)
ScanF(s, i, f, j, vals) ==
    IF j > Len(f) THEN vals
    ELSE IF f[j] = "%" /\ j < Len(f) /\ f[j + 1] = "d"
    THEN LET r == ScanInt(s, i)
         IN  IF r.ok THEN ScanF(s, r.next, f, j + 2, Append(vals, r.val))
             ELSE vals
    ELSE IF IsSpace(f[j]) THEN ScanF(s, SkipSpace(s, i), f, j + 1, vals)
    ELSE IF i <= Len(s) /\ s[i] = f[j] THEN ScanF(s, i + 1, f, j + 1, vals)
    ELSE vals

sscanf(s, f) == ScanF(s, 1, f, 1, <<>>)

(***************************************************************************)
(* Bit operations of the tile addressing                                   *)
(***************************************************************************)
RECURSIVE Pow2(_)
Pow2(n) == IF n = 0 THEN 1 ELSE 2 * Pow2(n - 1)

\* x << n and x >> n for non-negative x and shift counts below the width;
\* 0 >> n is 0 whatever the count, and so is x >> 31 for a 32-bit x
Shl(x, n) == x * Pow2(n)

Shr(x, n) == IF x = 0 \/ n = 31 THEN 0 ELSE x \div Pow2(n)

\* what x << n may yield in a 32-bit int, for x = 1 or x = 2: the shifted
\* value where the count is not negative and the value fits; otherwise the
\* shift is undefined, and the build yields the bits a 32-bit shifter leaves
\* with the count taken modulo 32, or 0
ShlOutcomes(x, n) ==
    LET bit == (n % 32) + (x - 1)
        wrapped == IF bit <= 30 THEN Pow2(bit)
                   ELSE IF bit = 31 THEN (-2) * Pow2(30)
                   ELSE 0
    IN  IF n >= 0 /\ n + (x - 1) <= 30 THEN { Pow2(n + (x - 1)) }
        ELSE { wrapped, 0 }

\* what x >> n may yield for an unsigned 32-bit x: the shifted value where
\* the count is below the width; otherwise the shift is undefined, and the
\* build shifts by the count taken modulo 32, or yields 0
ShrOutcomes(x, n) ==
    IF n < 32 THEN { Shr(x, n) } ELSE { Shr(x, n % 32), 0 }

\* a & b; a negative int is in two's complement, -1 being all ones
RECURSIVE BitAnd(_, _)
BitAnd(a, b) ==
    IF a = 0 \/ b = 0 THEN 0
    ELSE IF a = -1 THEN b
    ELSE IF b = -1 THEN a
    ELSE 2 * BitAnd(a \div 2, b \div 2) + (IF a % 2 = 1 /\ b % 2 = 1 THEN 1 ELSE 0)

RECURSIVE BitOr(_, _)
BitOr(a, b) ==
    IF a = 0 THEN b
    ELSE IF b = 0 THEN a
    ELSE 2 * BitOr(a \div 2, b \div 2) + (IF a % 2 = 1 \/ b % 2 = 1 THEN 1 ELSE 0)

\* static bool isPow2(int x)
isPow2(x) == BitAnd(x, x - 1) = 0

\* ChildIndex selecting by the bit of u alone
ChildIndex_UOnly(lod, u, v, n) ==
    LET mask == Shl(1, lod - n - 1)
    IN  Shr(BitAnd(u, mask), lod - n - 1)

\* the 2-bit child selector at step n of a walk towards level lod
ChildIndex(lod, u, v, n) ==
    LET mask == Shl(1, lod - n - 1)
    IN  Shr(BitOr(Shl(BitAnd(v, mask), 1), BitAnd(u, mask)), lod - n - 1)

\* the root index of a walk
RootIndex(lod, u) == Shr(u, lod)

\* the node reached after the first n steps of the walk towards
\* (lod, u, v): the root index followed by n child selectors
RECURSIVE PathTo(_, _, _, _)
PathTo(lod, u, v, n) ==
    IF n = 0 THEN <<RootIndex(lod, u)>>
    ELSE Append(PathTo(lod, u, v, n - 1), ChildIndex(lod, u, v, n - 1))

(***************************************************************************)
(* The file system the manager is built over, and its configuration        *)
(***************************************************************************)
TxPrefix == <<"t", "x", "_">>

\* a TilePrefix that holds conversion specifications of its own
PercentPrefix == <<"t", "x", "_", "%", "d", "_", "%", "d", ".">>

\* the TilePrefix values of the configurations
Prefixes == { TxPrefix, PercentPrefix }

DdsType == <<"d", "d", "s">>

\* a directory entry: file name <prefix><us>_<vs>.dds in directory level<n>
Entry(n, us, vs) ==
    [dir |-> LevelDir(n), name |-> TxPrefix \o us \o <<"_">> \o vs \o TileExt(DdsType)]

\* the candidate files of the catalog; the state names a file by its index
CatalogFiles ==
    << Entry(0, <<"0">>, <<"0">>),
       Entry(0, <<"0", "0">>, <<"0">>),
       Entry(1, <<"5">>, <<"2">>),
       Entry(2, <<"5">>, <<"2">>),
       Entry(3, <<"5">>, <<"2">>),
       Entry(1, <<"7">>, <<"3">>),
       [dir |-> LevelDir(1),
        name |-> TxPrefix \o <<"a", "b", "c">> \o TileExt(DdsType)],
       Entry(1, <<"-", "1">>, <<"0">>),
       Entry(1, <<"0">>, <<"0">>),
       Entry(12, <<"0">>, <<"0">>) >>

FileIds == 1..Len(CatalogFiles)

\* the state names the directory level<n> by n
DirOf(n) == LevelDir(n)

\* the index of the directory a candidate file lies in
DirIndexOf(f) == CHOOSE n \in 0..12 : DirOf(n) = CatalogFiles[f].dir

\* the catalogs the manager may be built over: the files, and the
\* directories that exist besides those of the files
Catalogs ==
    { [files |-> {}, extra |-> {}],
      [files |-> {}, extra |-> {1}],
      [files |-> {1, 2}, extra |-> {}],
      [files |-> {1, 4}, extra |-> {}],
      [files |-> {3, 4}, extra |-> {}],
      [files |-> {4, 5}, extra |-> {}],
      [files |-> {1, 5}, extra |-> {}],
      [files |-> {1, 5}, extra |-> {4}],
      [files |-> {4}, extra |-> {0, 4}],
      [files |-> {1, 4, 5}, extra |-> {}],
      [files |-> {1}, extra |-> {1, 2}],
      [files |-> {6, 7}, extra |-> {}],
      [files |-> {}, extra |-> {12, 13}],
      [files |-> {8}, extra |-> {}],
      [files |-> {1, 9}, extra |-> {}] }

\* a TileType other than the default
PngType == <<"p", "n", "g">>

\* an entry of the configuration Hash that is not there, and one that is
Missing(v) == [has |-> FALSE, val |-> v]

Given(v) == [has |-> TRUE, val |-> v]

\* the numbers of the configuration are doubles: here the fractions
\* <<numerator, denominator>> with denominator 1 or 2
BaseSplitParams ==
    { Missing(<<0, 1>>) } \cup
    { Given(<<n, 1>>) : n \in -1..MaxBaseSplit } \cup
    { Given(<<1, 2>>), Given(<<-1, 2>>) }

TileSizeParams ==
    { Missing(<<0, 1>>) } \cup
    { Given(<<n, 1>>) : n \in {0, 32, 63, 64, 96, 128, 256} } \cup
    { Given(<<129, 2>>) }

\* the configuration Hashes the factory is called with
ParamSets ==
    [ImageDirectory : {Missing(<<>>), Given(<<"d">>)},
     BaseSplit : BaseSplitParams,
     TileSize : TileSizeParams,
     TileType : {Missing(<<>>), Given(PngType)},
     TilePrefix : {Missing(<<>>), Given(PercentPrefix)}]

\* no factory call: the manager is constructed directly
NoParams ==
    [ImageDirectory |-> Missing(<<>>), BaseSplit |-> Missing(<<0, 1>>),
     TileSize |-> Missing(<<0, 1>>), TileType |-> Missing(<<>>),
     TilePrefix |-> Missing(<<>>)]

\* floor(x) and (int) x of a double x
Floor(x) == x[1] \div x[2]

ToInt(x) == IF x[1] >= 0 THEN x[1] \div x[2] ELSE -((-x[1]) \div x[2])

\* the lod arguments callers pass to getUTileCount and getVTileCount
QueryLods == (-2..1) \cup (27..30)

\* the arguments <<lod, u, v>> callers pass to getTile
Requests ==
    { <<l, 0, 0>> : l \in -1..4 } \cup
    { <<l, 5, 2>> : l \in 1..3 } \cup
    { <<l, 10, 4>> : l \in 2..4 } \cup
    { <<l, 11, 5>> : l \in 3..4 } \cup
    { <<0, 0, 1>>, <<0, -1, 0>>, <<0, 0, -1>>, <<-2, 0, 0>> }

\* what the image decoder may return for a file that exists
Images ==
    { [width |-> 64, height |-> 64, compressed |-> FALSE],
      [width |-> 64, height |-> 64, compressed |-> TRUE],
      [width |-> 100, height |-> 64, compressed |-> TRUE],
      [width |-> 64, height |-> 100, compressed |-> FALSE] }

NoImage == [width |-> 0, height |-> 0, compressed |-> FALSE]

(***************************************************************************)
(* State                                                                   *)
(***************************************************************************)
VARIABLES
    dirs,              \* the directories under tilePath (their indices)
    files,             \* the files in them (indices into CatalogFiles)
    texParams,         \* the configuration Hash given to the factory
    baseSplit,         \* VirtualTexture::baseSplit
    tilePrefix,        \* VirtualTexture::tilePrefix
    tileExt,           \* VirtualTexture::tileExt
    pc,                \* "scan" while the constructor runs populateTileTree
    scanI,             \* populateTileTree: the loop variable i
    visited,           \* populateTileTree: entries of level<i> iterated so far
    maxLevel,          \* populateTileTree: maxLevel
    nResolutionLevels, \* VirtualTexture::nResolutionLevels
    nodes,             \* the TileQuadtreeNodes, each named by its path
    tileOf,            \* node -> the Tile it carries
    ticks,             \* VirtualTexture::ticks
    tilesRequested,    \* VirtualTexture::tilesRequested
    compressed,        \* Texture::compressed
    texNames,          \* number of texture names handed out so far
    addCalls,          \* the addresses addTileToTree was called with
    last,              \* the most recent call and what it returned
    beginCalls,        \* the number of beginUsage calls so far
    getCalls,          \* the number of getTile calls since the last of them
    err                \* an assertion failed or an array was indexed out of range

vars == <<dirs, files, texParams, baseSplit, tilePrefix, tileExt, pc, scanI, visited,
          maxLevel, nResolutionLevels, nodes, tileOf, ticks, tilesRequested,
          compressed, texNames, addCalls, last, beginCalls, getCalls, err>>

usage == <<beginCalls, getCalls>>

config == <<dirs, files, texParams, baseSplit, tilePrefix, tileExt>>

NoTex == [name |-> 0, src |-> <<>>, mipmaps |-> FALSE]

\* new Tile()
NewTile(e) == [entry |-> e, tex |-> NoTex, loadFailed |-> FALSE, loads |-> 0]

\* TextureTile(0)
EmptyTile == [texID |-> 0, u |-> <<0, 1>>, v |-> <<0, 1>>, du |-> <<1, 1>>, dv |-> <<1, 1>>]

NoNode == <<>>

NoCall ==
    [op |-> "none", lod |-> 0, u |-> 0, v |-> 0, result |-> EmptyTile,
     absLod |-> 0, inRange |-> FALSE, match |-> NoNode, tileLOD |-> 0,
     tileU |-> 0, tileV |-> 0, decoded |-> FALSE, image |-> NoImage,
     count |-> 0, level |-> 0, x |-> 0, pow2 |-> FALSE]

Init ==
    /\ texParams = NoParams
    /\ baseSplit \in 0..MaxBaseSplit
    /\ tilePrefix \in Prefixes
    /\ tileExt = TileExt(DdsType)
    /\ \E c \in Catalogs :
          /\ files = c.files
          /\ dirs = { DirIndexOf(f) : f \in files } \cup c.extra
    /\ pc = "scan"
    /\ scanI = 0
    /\ visited = {}
    /\ maxLevel = 0
    /\ nResolutionLevels = 0
    /\ nodes = { <<0>>, <<1>> }
    /\ tileOf = << >>
    /\ ticks = 0
    /\ tilesRequested \in 0..1   \* the constructor leaves it unset
    /\ compressed = FALSE
    /\ texNames = 0
    /\ addCalls = {}
    /\ last = NoCall
    /\ beginCalls = 0
    /\ getCalls = 0
    /\ err = FALSE

(***************************************************************************)
(* populateTileTree and addTileToTree                                      *)
(***************************************************************************)
\* the nodes on the walk from the root to (lod, u, v), both included
PathNodes(lod, u, v) == { PathTo(lod, u, v, n) : n \in 0..lod }

\* void VirtualTexture::addTileToTree(Tile*, lod, u, v): the new nodes and
\* the new tile map
AddTileNodes(ns, lod, u, v) == ns \cup PathNodes(lod, u, v)

\* AddTileMap dropping a tile that has a tile above it on its path
AddTileMap_UnlessAbove(tm, tile, lod, u, v) ==
    LET node == PathTo(lod, u, v, lod)
    IN  IF node \in DOMAIN tm
           \/ \E n \in 0..(lod - 1) : PathTo(lod, u, v, n) \in DOMAIN tm
        THEN tm
        ELSE [x \in DOMAIN tm \cup {node} |-> IF x = node THEN tile ELSE tm[x]]

\* AddTileMap replacing the tile a node already carries
AddTileMap_Overwrite(tm, tile, lod, u, v) ==
    LET node == PathTo(lod, u, v, lod)
    IN  [x \in DOMAIN tm \cup {node} |-> IF x = node THEN tile ELSE tm[x]]

AddTileMap(tm, tile, lod, u, v) ==
    LET node == PathTo(lod, u, v, lod)
    IN  IF node \in DOMAIN tm THEN tm
        ELSE [x \in DOMAIN tm \cup {node} |-> IF x = node THEN tile ELSE tm[x]]

\* Pattern built from the prefix whatever it contains
Pattern_AnyPrefix(prefix) == prefix \o <<"%", "d", "_", "%", "d", ".">>

\* the pattern populateTileTree hands to sscanf
Pattern(prefix) ==
    IF ~Contains(prefix, "%") THEN prefix \o <<"%", "d", "_", "%", "d", ".">>
    ELSE <<>>

\* fs::is_directory(tilePath / name)
IsDirectory(name) == \E n \in dirs : DirOf(n) = name

\* whether a file exists at tilePath / path.dir / path.name
FileExists(path) == \E f \in files : CatalogFiles[f] = path

\* ScanEntry taking the directory's number for the level of its tiles
ScanEntry_NoSplit ==
    /\ pc = "scan"
    /\ scanI < MaxResolutionLevels
    /\ IsDirectory(LevelDir(scanI))
    /\ \E e \in files \ visited :
          /\ CatalogFiles[e].dir = LevelDir(scanI)
          /\ visited' = visited \cup {e}
          /\ LET lvl == scanI
                 uLimit == Shl(2, lvl)
                 vLimit == Shl(1, lvl)
                 r == sscanf(CatalogFiles[e].name, Pattern(tilePrefix))
             IN  /\ maxLevel' = lvl
                 /\ IF Len(r) = 2 /\ r[1] >= 0 /\ r[2] >= 0
                       /\ r[1] < uLimit /\ r[2] < vLimit
                    THEN /\ nodes' = AddTileNodes(nodes, lvl, r[1], r[2])
                         /\ tileOf' = AddTileMap(tileOf, NewTile(e), lvl, r[1], r[2])
                         /\ addCalls' = addCalls \cup
                               {[lod |-> lvl, u |-> r[1], v |-> r[2], entry |-> e]}
                    ELSE UNCHANGED <<nodes, tileOf, addCalls>>
    /\ UNCHANGED <<config, usage, pc, scanI, nResolutionLevels, ticks,
                   tilesRequested, compressed, texNames, last, err>>

\* ScanEntry without the test of u and v against the limits of the level
ScanEntry_NoLimits ==
    /\ pc = "scan"
    /\ scanI < MaxResolutionLevels
    /\ IsDirectory(LevelDir(scanI))
    /\ \E e \in files \ visited :
          /\ CatalogFiles[e].dir = LevelDir(scanI)
          /\ visited' = visited \cup {e}
          /\ LET lvl == scanI + baseSplit
                 r == sscanf(CatalogFiles[e].name, Pattern(tilePrefix))
             IN  /\ maxLevel' = lvl
                 /\ IF Len(r) = 2
                    THEN /\ nodes' = AddTileNodes(nodes, lvl, r[1], r[2])
                         /\ tileOf' = AddTileMap(tileOf, NewTile(e), lvl, r[1], r[2])
                         /\ addCalls' = addCalls \cup
                               {[lod |-> lvl, u |-> r[1], v |-> r[2], entry |-> e]}
                    ELSE UNCHANGED <<nodes, tileOf, addCalls>>
    /\ UNCHANGED <<config, usage, pc, scanI, nResolutionLevels, ticks,
                   tilesRequested, compressed, texNames, last, err>>

\* one iteration of the directory loop: the entry e of level<i>
ScanEntry ==
    /\ pc = "scan"
    /\ scanI < MaxResolutionLevels
    /\ IsDirectory(LevelDir(scanI))
    /\ \E e \in files \ visited :
          /\ CatalogFiles[e].dir = LevelDir(scanI)
          /\ visited' = visited \cup {e}
          /\ \E lvl \in {scanI + baseSplit} :
             \E uLimit \in ShlOutcomes(2, lvl), vLimit \in ShlOutcomes(1, lvl) :
             \E r \in {sscanf(CatalogFiles[e].name, Pattern(tilePrefix))} :
                 /\ maxLevel' = lvl
                 /\ IF Len(r) = 2 /\ r[1] >= 0 /\ r[2] >= 0
                       /\ r[1] < uLimit /\ r[2] < vLimit
                    THEN /\ nodes' = AddTileNodes(nodes, lvl, r[1], r[2])
                         /\ tileOf' = AddTileMap(tileOf, NewTile(e), lvl, r[1], r[2])
                         /\ addCalls' = addCalls \cup
                               {[lod |-> lvl, u |-> r[1], v |-> r[2], entry |-> e]}
                    ELSE UNCHANGED <<nodes, tileOf, addCalls>>
    /\ UNCHANGED <<config, usage, pc, scanI, nResolutionLevels, ticks, tilesRequested,
                   compressed, texNames, last, err>>

\* ScanNextLevel not counting a directory without entries
ScanNextLevel_SkipEmpty ==
    /\ pc = "scan"
    /\ scanI < MaxResolutionLevels
    /\ \A e \in files : CatalogFiles[e].dir = LevelDir(scanI) => e \in visited
    /\ scanI' = scanI + 1
    /\ visited' = {}
    /\ UNCHANGED <<config, usage, pc, maxLevel, nResolutionLevels, nodes, tileOf, ticks,
                   tilesRequested, compressed, texNames, addCalls, last, err>>

\* the end of one iteration of the level loop: level<i> is not a
\* directory, or all its entries have been iterated
ScanNextLevel ==
    /\ pc = "scan"
    /\ scanI < MaxResolutionLevels
    /\ \A e \in files : CatalogFiles[e].dir = LevelDir(scanI) => e \in visited
    /\ maxLevel' = IF IsDirectory(LevelDir(scanI)) THEN scanI + baseSplit ELSE maxLevel
    /\ scanI' = scanI + 1
    /\ visited' = {}
    /\ UNCHANGED <<config, usage, pc, nResolutionLevels, nodes, tileOf, ticks,
                   tilesRequested, compressed, texNames, addCalls, last, err>>

\* the end of populateTileTree and of the constructor
ScanDone ==
    /\ pc = "scan"
    /\ scanI = MaxResolutionLevels
    /\ nResolutionLevels' = maxLevel + 1
    /\ pc' = "ready"
    /\ UNCHANGED <<config, usage, scanI, visited, maxLevel, nodes, tileOf, ticks,
                   tilesRequested, compressed, texNames, addCalls, last, err>>

(***************************************************************************)
(* getTile, makeResident and loadTileTexture                               *)
(***************************************************************************)
\* InRange without the upper limit on v
InRange_NoVLimit(lod, u, v, uLimit, vLimit) ==
    ~(\/ lod < 0
      \/ lod >= nResolutionLevels
      \/ u < 0
      \/ u >= uLimit
      \/ v < 0)

\* the range check of getTile, on the absolute level; uLimit and vLimit
\* are what 2 << lod and 1 << lod yield
InRange(lod, u, v, uLimit, vLimit) ==
    ~(\/ lod < 0
      \/ lod >= nResolutionLevels
      \/ u < 0
      \/ u >= uLimit
      \/ v < 0
      \/ v >= vLimit)

\* WalkFrom recording the level of the parent of the tile it meets
RECURSIVE WalkFrom_ParentLevel(_, _, _, _, _, _, _)
WalkFrom_ParentLevel(lod, u, v, n, node, tile, tileLOD) ==
    IF n >= lod THEN [tile |-> tile, tileLOD |-> tileLOD]
    ELSE LET child == Append(node, ChildIndex(lod, u, v, n))
         IN  IF child \notin nodes THEN [tile |-> tile, tileLOD |-> tileLOD]
             ELSE IF child \in DOMAIN tileOf
             THEN WalkFrom_ParentLevel(lod, u, v, n + 1, child, child, n)
             ELSE WalkFrom_ParentLevel(lod, u, v, n + 1, child, tile, tileLOD)

\* WalkFrom stopping one level short of the requested one
RECURSIVE WalkFrom_StopEarly(_, _, _, _, _, _, _)
WalkFrom_StopEarly(lod, u, v, n, node, tile, tileLOD) ==
    IF n + 1 >= lod THEN [tile |-> tile, tileLOD |-> tileLOD]
    ELSE LET child == Append(node, ChildIndex(lod, u, v, n))
         IN  IF child \notin nodes THEN [tile |-> tile, tileLOD |-> tileLOD]
             ELSE IF child \in DOMAIN tileOf
             THEN WalkFrom_StopEarly(lod, u, v, n + 1, child, child, n + 1)
             ELSE WalkFrom_StopEarly(lod, u, v, n + 1, child, tile, tileLOD)

\* WalkFrom keeping the first tile it meets instead of the last
RECURSIVE WalkFrom_KeepFirst(_, _, _, _, _, _, _)
WalkFrom_KeepFirst(lod, u, v, n, node, tile, tileLOD) ==
    IF n >= lod THEN [tile |-> tile, tileLOD |-> tileLOD]
    ELSE LET child == Append(node, ChildIndex(lod, u, v, n))
         IN  IF child \notin nodes THEN [tile |-> tile, tileLOD |-> tileLOD]
             ELSE IF child \in DOMAIN tileOf /\ tile = NoNode
             THEN WalkFrom_KeepFirst(lod, u, v, n + 1, child, child, n + 1)
             ELSE WalkFrom_KeepFirst(lod, u, v, n + 1, child, tile, tileLOD)

\* the loop of getTile: from step n at node, with the best tile seen so far
RECURSIVE WalkFrom(_, _, _, _, _, _, _)
WalkFrom(lod, u, v, n, node, tile, tileLOD) ==
    IF n >= lod THEN [tile |-> tile, tileLOD |-> tileLOD]
    ELSE LET child == Append(node, ChildIndex(lod, u, v, n))
         IN  IF child \notin nodes THEN [tile |-> tile, tileLOD |-> tileLOD]
             ELSE IF child \in DOMAIN tileOf
             THEN WalkFrom(lod, u, v, n + 1, child, child, n + 1)
             ELSE WalkFrom(lod, u, v, n + 1, child, tile, tileLOD)

\* the lookup of getTile: the node of the deepest tile on the path and its depth
FindBestMatch(lod, u, v) ==
    LET root == <<RootIndex(lod, u)>>
    IN  WalkFrom(lod, u, v, 0, root,
                 IF root \in DOMAIN tileOf THEN root ELSE NoNode, 0)

\* the level number loadTileTexture derives from the tile's level, where
\* the shift is defined
LoadLevel(lod) == Shr(lod, baseSplit)

\* what lod >>= baseSplit may leave in lod
LoadLevelOutcomes(lod) ==
    IF baseSplit < 32 THEN { LoadLevel(lod) } ELSE ShrOutcomes(lod, baseSplit)

\* the file at level<n>/<prefix><u>_<v><ext>
TilePath(n, u, v) ==
    [dir |-> LevelDir(n), name |-> TileFileName(tilePrefix, u, v, tileExt)]

\* the file loadTileTexture asks the decoder for
LoadPath(lod, u, v) == TilePath(LoadLevel(lod), u, v)

\* LoadImageFromFile: nothing for a file that does not exist, an image or
\* nothing for one that does
DecoderResults(path) ==
    IF FileExists(path) THEN Images \cup {NoImage} ELSE {NoImage}

\* LoadTileTexture without the test of the image's dimensions
LoadTileTexture_AnySize(lod, u, v, lvl, img) ==
    IF img = NoImage THEN NoTex
    ELSE [name |-> texNames + 1, src |-> <<lvl, u, v>>,
          mipmaps |-> (lvl = 0)]

\* ImageTexture* VirtualTexture::loadTileTexture(lod, u, v), the shift
\* having left lvl in lod and the decoder having returned img
LoadTileTexture(lod, u, v, lvl, img) ==
    IF img = NoImage THEN NoTex
    ELSE IF isPow2(img.width) /\ isPow2(img.height)
    THEN [name |-> texNames + 1, src |-> <<lvl, u, v>>,
          mipmaps |-> (lvl = 0)]
    ELSE NoTex

\* NeedsLoad trying again a tile whose load failed
NeedsLoad_Retry(tile) == tile.tex = NoTex

\* whether makeResident goes to the loader
NeedsLoad(tile) == tile.tex = NoTex /\ ~tile.loadFailed

\* void VirtualTexture::makeResident(tile, lod, u, v): the tile afterwards
MakeResident(tile, lod, u, v, lvl, img) ==
    IF NeedsLoad(tile)
    THEN LET tex == LoadTileTexture(lod, u, v, lvl, img)
         IN  [tile EXCEPT !.tex = tex,
                          !.loadFailed = IF tex = NoTex THEN TRUE ELSE @,
                          !.loads = @ + 1]
    ELSE tile

\* SubRect masking with 2^lodDiff instead of 2^lodDiff - 1
SubRect_WrongMask(texID, lod, tileLOD, u, v) ==
    LET lodDiff == lod - tileLOD
        den == Shl(1, lodDiff)
    IN  [texID |-> texID,
         u |-> <<BitAnd(u, den), den>>,
         v |-> <<BitAnd(v, den), den>>,
         du |-> <<1, den>>,
         dv |-> <<1, den>>]

\* the texture subrect of getTile, as fractions <<numerator, denominator>>;
\* the float values are exact, being multiples of a power of two
SubRect(texID, lod, tileLOD, u, v) ==
    LET lodDiff == lod - tileLOD
        den == Shl(1, lodDiff)
    IN  [texID |-> texID,
         u |-> <<BitAnd(u, den - 1), den>>,
         v |-> <<BitAnd(v, den - 1), den>>,
         du |-> <<1, den>>,
         dv |-> <<1, den>>]

\* ServeTile releasing the textures of all the other tiles
ServeTile_ReleaseOthers(call, lod, u, v, m, lvl, img) ==
    \E tileU \in {Shr(u, lod - m.tileLOD)}, tileV \in {Shr(v, lod - m.tileLOD)} :
    \E loaded \in {NeedsLoad(tileOf[m.tile])} :
    \E t2 \in {MakeResident(tileOf[m.tile], m.tileLOD, tileU, tileV, lvl, img)} :
        /\ tileOf' = [n \in DOMAIN tileOf |->
                         IF n = m.tile THEN t2 ELSE [tileOf[n] EXCEPT !.tex = NoTex]]
        /\ texNames' = IF loaded /\ t2.tex # NoTex THEN texNames + 1 ELSE texNames
        /\ compressed' = IF loaded /\ img # NoImage THEN img.compressed ELSE compressed
        /\ err' = (err \/ (loaded /\ ~(lvl < MaxResolutionLevels)))
        /\ last' = [call EXCEPT
              !.inRange = TRUE,
              !.match = m.tile,
              !.tileLOD = m.tileLOD,
              !.tileU = tileU,
              !.tileV = tileV,
              !.decoded = loaded,
              !.level = IF loaded THEN lvl ELSE 0,
              !.image = IF loaded THEN img ELSE NoImage,
              !.result = IF t2.tex = NoTex THEN EmptyTile
                         ELSE SubRect(t2.tex.name, lod, m.tileLOD, u, v)]

\* ServeTile taking the compressed flag only from an image that became a
\* texture
ServeTile_FlagIfResident(call, lod, u, v, m, lvl, img) ==
    \E tileU \in {Shr(u, lod - m.tileLOD)}, tileV \in {Shr(v, lod - m.tileLOD)} :
    \E loaded \in {NeedsLoad(tileOf[m.tile])} :
    \E t2 \in {MakeResident(tileOf[m.tile], m.tileLOD, tileU, tileV, lvl, img)} :
        /\ tileOf' = [tileOf EXCEPT ![m.tile] = t2]
        /\ texNames' = IF loaded /\ t2.tex # NoTex THEN texNames + 1 ELSE texNames
        /\ compressed' = IF loaded /\ t2.tex # NoTex THEN img.compressed ELSE compressed
        /\ err' = (err \/ (loaded /\ ~(lvl < MaxResolutionLevels)))
        /\ last' = [call EXCEPT
              !.inRange = TRUE,
              !.match = m.tile,
              !.tileLOD = m.tileLOD,
              !.tileU = tileU,
              !.tileV = tileV,
              !.decoded = loaded,
              !.level = IF loaded THEN lvl ELSE 0,
              !.image = IF loaded THEN img ELSE NoImage,
              !.result = IF t2.tex = NoTex THEN EmptyTile
                         ELSE SubRect(t2.tex.name, lod, m.tileLOD, u, v)]

\* the part of getTile after a tile was matched at node m.tile: residency,
\* then the descriptor; img is what the decoder returns if it is called
ServeTile(call, lod, u, v, m, lvl, img) ==
    \E tileU \in {Shr(u, lod - m.tileLOD)}, tileV \in {Shr(v, lod - m.tileLOD)} :
    \E loaded \in {NeedsLoad(tileOf[m.tile])} :
    \E t2 \in {MakeResident(tileOf[m.tile], m.tileLOD, tileU, tileV, lvl, img)} :
        /\ tileOf' = [tileOf EXCEPT ![m.tile] = t2]
        /\ texNames' = IF loaded /\ t2.tex # NoTex THEN texNames + 1 ELSE texNames
        /\ compressed' = IF loaded /\ img # NoImage THEN img.compressed ELSE compressed
        /\ err' = (err \/ (loaded /\ ~(lvl < MaxResolutionLevels)))
        /\ last' = [call EXCEPT
              !.inRange = TRUE,
              !.match = m.tile,
              !.tileLOD = m.tileLOD,
              !.tileU = tileU,
              !.tileV = tileV,
              !.decoded = loaded,
              !.level = IF loaded THEN lvl ELSE 0,
              !.image = IF loaded THEN img ELSE NoImage,
              !.result = IF t2.tex = NoTex THEN EmptyTile
                         ELSE SubRect(t2.tex.name, lod, m.tileLOD, u, v)]

\* TextureTile VirtualTexture::getTile(int lod, int u, int v)
GetTile(lod0, u, v) ==
    /\ pc = "ready"
    /\ tilesRequested < MaxRequested
    /\ tilesRequested' = tilesRequested + 1
    /\ getCalls' = getCalls + 1
    /\ LET lod == lod0 + baseSplit
           call == [NoCall EXCEPT !.op = "getTile", !.lod = lod0, !.u = u,
                                  !.v = v, !.absLod = lod]
       IN  \E uLimit \in ShlOutcomes(2, lod), vLimit \in ShlOutcomes(1, lod) :
           IF ~InRange(lod, u, v, uLimit, vLimit)
           THEN /\ last' = call
                /\ UNCHANGED <<tileOf, compressed, texNames, err>>
           ELSE IF <<RootIndex(lod, u)>> \notin nodes
           THEN \* tileTree[] indexed past its two roots
                /\ last' = [call EXCEPT !.inRange = TRUE]
                /\ err' = TRUE
                /\ UNCHANGED <<tileOf, compressed, texNames>>
           ELSE \E m \in {FindBestMatch(lod, u, v)} :
                  IF m.tile = NoNode
                  THEN /\ last' = [call EXCEPT !.inRange = TRUE]
                       /\ UNCHANGED <<tileOf, compressed, texNames, err>>
                  ELSE IF NeedsLoad(tileOf[m.tile])
                  THEN \E lvl \in LoadLevelOutcomes(m.tileLOD) :
                       \E img \in DecoderResults(
                              TilePath(lvl, Shr(u, lod - m.tileLOD),
                                       Shr(v, lod - m.tileLOD))) :
                          ServeTile(call, lod, u, v, m, lvl, img)
                  ELSE ServeTile(call, lod, u, v, m, 0, NoImage)
    /\ UNCHANGED <<config, beginCalls, pc, scanI, visited, maxLevel,
                   nResolutionLevels, nodes, ticks, addCalls>>

\* beginUsage leaving tilesRequested as it is
BeginUsage_NoReset ==
    /\ pc = "ready"
    /\ ticks < MaxTicks
    /\ ticks' = ticks + 1
    /\ beginCalls' = beginCalls + 1
    /\ getCalls' = 0
    /\ last' = [NoCall EXCEPT !.op = "beginUsage"]
    /\ UNCHANGED <<config, pc, scanI, visited, maxLevel, nResolutionLevels,
                   nodes, tileOf, tilesRequested, compressed, texNames,
                   addCalls, err>>

\* void VirtualTexture::beginUsage()
BeginUsage ==
    /\ pc = "ready"
    /\ ticks < MaxTicks
    /\ ticks' = ticks + 1
    /\ tilesRequested' = 0
    /\ beginCalls' = beginCalls + 1
    /\ getCalls' = 0
    /\ last' = [NoCall EXCEPT !.op = "beginUsage"]
    /\ UNCHANGED <<config, pc, scanI, visited, maxLevel, nResolutionLevels,
                   nodes, tileOf, compressed, texNames, addCalls, err>>

\* void VirtualTexture::endUsage()
EndUsage ==
    /\ pc = "ready"
    /\ last' = [NoCall EXCEPT !.op = "endUsage"]
    /\ UNCHANGED <<config, usage, pc, scanI, visited, maxLevel, nResolutionLevels,
                   nodes, tileOf, ticks, tilesRequested, compressed, texNames,
                   addCalls, err>>

\* getLODCount returning the number of levels without subtracting baseSplit
getLODCount_Levels == nResolutionLevels

\* int VirtualTexture::getLODCount() const: the unsigned difference, read as
\* an int, is the difference itself
getLODCount == nResolutionLevels - baseSplit

\* int VirtualTexture::getUTileCount(int lod) const: the values it may return
getUTileCount(lod) == ShlOutcomes(2, lod + baseSplit)

\* getVTileCount returning the width of the grid
getVTileCount_Width(lod) == ShlOutcomes(2, lod + baseSplit)

\* int VirtualTexture::getVTileCount(int lod) const: the values it may return
getVTileCount(lod) == ShlOutcomes(1, lod + baseSplit)

\* a call of getLODCount
GetLODCount ==
    /\ pc = "ready"
    /\ last' = [NoCall EXCEPT !.op = "getLODCount", !.count = getLODCount]
    /\ UNCHANGED <<config, usage, pc, scanI, visited, maxLevel, nResolutionLevels,
                   nodes, tileOf, ticks, tilesRequested, compressed, texNames,
                   addCalls, err>>

\* a call of getUTileCount
GetUTileCount ==
    /\ pc = "ready"
    /\ \E lod \in QueryLods : \E r \in getUTileCount(lod) :
          last' = [NoCall EXCEPT !.op = "getUTileCount", !.lod = lod, !.count = r]
    /\ UNCHANGED <<config, usage, pc, scanI, visited, maxLevel, nResolutionLevels,
                   nodes, tileOf, ticks, tilesRequested, compressed, texNames,
                   addCalls, err>>

\* a call of getVTileCount
GetVTileCount ==
    /\ pc = "ready"
    /\ \E lod \in QueryLods : \E r \in getVTileCount(lod) :
          last' = [NoCall EXCEPT !.op = "getVTileCount", !.lod = lod, !.count = r]
    /\ UNCHANGED <<config, usage, pc, scanI, visited, maxLevel, nResolutionLevels,
                   nodes, tileOf, ticks, tilesRequested, compressed, texNames,
                   addCalls, err>>

Request == \E r \in Requests : GetTile(r[1], r[2], r[3])

Next ==
    \/ ScanEntry
    \/ ScanNextLevel
    \/ ScanDone
    \/ Request
    \/ BeginUsage
    \/ EndUsage

Spec == Init /\ [][Next]_vars

\* the manager asked for its dimensions and for tiles
QueryNext ==
    \/ ScanEntry
    \/ ScanNextLevel
    \/ ScanDone
    \/ Request
    \/ GetLODCount
    \/ GetUTileCount
    \/ GetVTileCount

QuerySpec == Init /\ [][QueryNext]_vars

(***************************************************************************)
(* addTileToTree by itself, called with any addresses in any order         *)
(***************************************************************************)
\* the addresses addTileToTree is called with: those of the grids of the
\* levels 0, 1 and 2
InsertAddresses ==
    { a \in (0..2) \X (0..7) \X (0..3) :
         a[2] < Shl(2, a[1]) /\ a[3] < Shl(1, a[1]) }

\* a tree of two roots, no catalog being scanned
InsertInit ==
    /\ texParams = NoParams
    /\ baseSplit = 0
    /\ tilePrefix = TxPrefix
    /\ tileExt = TileExt(DdsType)
    /\ files = {}
    /\ dirs = {}
    /\ pc = "insert"
    /\ scanI = 0
    /\ visited = {}
    /\ maxLevel = 0
    /\ nResolutionLevels = 0
    /\ nodes = { <<0>>, <<1>> }
    /\ tileOf = << >>
    /\ ticks = 0
    /\ tilesRequested \in 0..1
    /\ compressed = FALSE
    /\ texNames = 0
    /\ addCalls = {}
    /\ last = NoCall
    /\ beginCalls = 0
    /\ getCalls = 0
    /\ err = FALSE

\* addTileToTree(new Tile(), lod, u, v); the tile is named by the number
\* of the call
AddTileToTree ==
    /\ pc = "insert"
    /\ Cardinality(addCalls) < MaxInserts
    /\ \E a \in InsertAddresses :
          /\ nodes' = AddTileNodes(nodes, a[1], a[2], a[3])
          /\ tileOf' = AddTileMap(tileOf, NewTile(Cardinality(addCalls) + 1),
                                  a[1], a[2], a[3])
          /\ addCalls' = addCalls \cup
                {[lod |-> a[1], u |-> a[2], v |-> a[3],
                  entry |-> Cardinality(addCalls) + 1]}
    /\ UNCHANGED <<config, usage, pc, scanI, visited, maxLevel,
                   nResolutionLevels, ticks, tilesRequested, compressed,
                   texNames, last, err>>

InsertNext == AddTileToTree

InsertSpec == InsertInit /\ [][InsertNext]_vars

(***************************************************************************)
(* CreateVirtualTexture                                                    *)
(***************************************************************************)
\* the test of BaseSplit
BaseSplitOk(bs) ==
    ~(~bs.has \/ bs.val[1] < 0 \/ bs.val[1] # Floor(bs.val) * bs.val[2])

\* TileSizeOk without the minimum of 64
TileSizeOk_NoMinimum(ts) ==
    /\ ts.has
    /\ ~(\/ ts.val[1] # Floor(ts.val) * ts.val[2]
         \/ ~isPow2(ToInt(ts.val)))

\* the two tests of TileSize
TileSizeOk(ts) ==
    /\ ts.has
    /\ ~(\/ ts.val[1] # Floor(ts.val) * ts.val[2]
         \/ ts.val[1] < 64 * ts.val[2]
         \/ ~isPow2(ToInt(ts.val)))

\* the state before the factory is called with texParams
FactoryInit ==
    /\ texParams \in ParamSets
    /\ baseSplit = 0
    /\ tilePrefix = <<>>
    /\ tileExt = <<>>
    /\ \E c \in Catalogs :
          /\ files = c.files
          /\ dirs = { DirIndexOf(f) : f \in files } \cup c.extra
    /\ pc = "create"
    /\ scanI = 0
    /\ visited = {}
    /\ maxLevel = 0
    /\ nResolutionLevels = 0
    /\ nodes = { <<0>>, <<1>> }
    /\ tileOf = << >>
    /\ ticks = 0
    /\ tilesRequested \in 0..1
    /\ compressed = FALSE
    /\ texNames = 0
    /\ addCalls = {}
    /\ last = NoCall
    /\ beginCalls = 0
    /\ getCalls = 0
    /\ err = FALSE

\* CreateVirtualTexture(texParams, path), up to the call of the constructor
\* (pc = "scan") or the return of nullptr (pc = "null")
CreateVirtualTexture ==
    /\ pc = "create"
    /\ IF /\ texParams.ImageDirectory.has
          /\ BaseSplitOk(texParams.BaseSplit)
          /\ TileSizeOk(texParams.TileSize)
       THEN /\ baseSplit' = ToInt(texParams.BaseSplit.val)
            /\ tileExt' = TileExt(IF texParams.TileType.has
                                  THEN texParams.TileType.val ELSE DdsType)
            /\ tilePrefix' = IF texParams.TilePrefix.has
                             THEN texParams.TilePrefix.val ELSE TxPrefix
            /\ pc' = "scan"
       ELSE /\ pc' = "null"
            /\ UNCHANGED <<baseSplit, tilePrefix, tileExt>>
    /\ UNCHANGED <<dirs, files, texParams, usage, scanI, visited, maxLevel,
                   nResolutionLevels, nodes, tileOf, ticks, tilesRequested,
                   compressed, texNames, addCalls, last, err>>

\* the factory and the constructor it calls
FactoryNext ==
    \/ CreateVirtualTexture
    \/ ScanEntry
    \/ ScanNextLevel
    \/ ScanDone

FactorySpec == FactoryInit /\ [][FactoryNext]_vars

(***************************************************************************)
(* The factory called with large base splits over level directories that   *)
(* hold no files                                                           *)
(***************************************************************************)
\* values of BaseSplit that pass the factory's test, small and large
WideSplits == {0, 1, 17, 18, 28, 29, 30}

\* sets of existing directories level<i>, all of them empty
EmptyLevelDirs == { {}, {0}, {1}, {0, 1}, {12}, {0, 12} }

\* configuration Hashes that differ in BaseSplit only
WideParamSets ==
    [ImageDirectory : {Given(<<"d">>)},
     BaseSplit : { Given(<<n, 1>>) : n \in WideSplits },
     TileSize : {Given(<<64, 1>>)},
     TileType : {Missing(<<>>)},
     TilePrefix : {Missing(<<>>)}]

WideInit ==
    /\ texParams \in WideParamSets
    /\ baseSplit = 0
    /\ tilePrefix = <<>>
    /\ tileExt = <<>>
    /\ files = {}
    /\ dirs \in EmptyLevelDirs
    /\ pc = "create"
    /\ scanI = 0
    /\ visited = {}
    /\ maxLevel = 0
    /\ nResolutionLevels = 0
    /\ nodes = { <<0>>, <<1>> }
    /\ tileOf = << >>
    /\ ticks = 0
    /\ tilesRequested \in 0..1
    /\ compressed = FALSE
    /\ texNames = 0
    /\ addCalls = {}
    /\ last = NoCall
    /\ beginCalls = 0
    /\ getCalls = 0
    /\ err = FALSE

\* the factory, the scan of the empty directories and the two counts
WideNext ==
    \/ CreateVirtualTexture
    \/ ScanNextLevel
    \/ ScanDone
    \/ GetUTileCount
    \/ GetVTileCount

WideSpec == WideInit /\ [][WideNext]_vars

(***************************************************************************)
(* The manager with base splits up to and beyond the width of an int, over *)
(* catalogs whose tiles are all at (0, 0): every shift of the addressing   *)
(* of (0, 0) yields 0, whatever its count                                  *)
(***************************************************************************)
\* base splits around the width of an int; the factory accepts them all
WordSplits == {31, 32, 33}

\* tiles at (0, 0) in level0, level1 and level12
DeepCatalogs == { {1}, {10}, {1, 9}, {1, 10} }

\* the arguments <<lod, u, v>> of the requests
DeepRequests == { <<l, 0, 0>> : l \in {-1, 0, 1, 11, 12, 13} }

DeepInit ==
    /\ texParams = NoParams
    /\ baseSplit \in (0..MaxBaseSplit) \cup WordSplits
    /\ tilePrefix = TxPrefix
    /\ tileExt = TileExt(DdsType)
    /\ files \in DeepCatalogs
    /\ dirs = { DirIndexOf(f) : f \in files }
    /\ pc = "scan"
    /\ scanI = 0
    /\ visited = {}
    /\ maxLevel = 0
    /\ nResolutionLevels = 0
    /\ nodes = { <<0>>, <<1>> }
    /\ tileOf = << >>
    /\ ticks = 0
    /\ tilesRequested \in 0..1
    /\ compressed = FALSE
    /\ texNames = 0
    /\ addCalls = {}
    /\ last = NoCall
    /\ beginCalls = 0
    /\ getCalls = 0
    /\ err = FALSE

DeepRequest == \E r \in DeepRequests : GetTile(r[1], r[2], r[3])

DeepNext ==
    \/ ScanEntry
    \/ ScanNextLevel
    \/ ScanDone
    \/ DeepRequest
    \/ BeginUsage
    \/ EndUsage

DeepSpec == DeepInit /\ [][DeepNext]_vars

(***************************************************************************)
(* isPow2 applied to the ints of a range around 0                          *)
(***************************************************************************)
Pow2Inputs == (-70)..300

Pow2Init ==
    /\ texParams = NoParams
    /\ baseSplit = 0
    /\ tilePrefix = TxPrefix
    /\ tileExt = TileExt(DdsType)
    /\ files = {}
    /\ dirs = {}
    /\ pc = "isPow2"
    /\ scanI = 0
    /\ visited = {}
    /\ maxLevel = 0
    /\ nResolutionLevels = 0
    /\ nodes = { <<0>>, <<1>> }
    /\ tileOf = << >>
    /\ ticks = 0
    /\ tilesRequested = 0
    /\ compressed = FALSE
    /\ texNames = 0
    /\ addCalls = {}
    /\ last = NoCall
    /\ beginCalls = 0
    /\ getCalls = 0
    /\ err = FALSE

\* a call of isPow2
IsPow2Call ==
    /\ pc = "isPow2"
    /\ \E x \in Pow2Inputs :
          last' = [NoCall EXCEPT !.op = "isPow2", !.x = x, !.pow2 = isPow2(x)]
    /\ UNCHANGED <<config, usage, pc, scanI, visited, maxLevel, nResolutionLevels,
                   nodes, tileOf, ticks, tilesRequested, compressed, texNames,
                   addCalls, err>>

Pow2Next == IsPow2Call

Pow2Spec == Pow2Init /\ [][Pow2Next]_vars

(***************************************************************************)
(* Notions the properties are stated in                                    *)
(***************************************************************************)
\* (level, u, v) lies in the tile grid of its level: 2^(level+1) by 2^level
InGrid(level, u, v) ==
    /\ level >= 0
    /\ 0 <= u /\ u < 2 * Pow2(level)
    /\ 0 <= v /\ v < Pow2(level)

\* the depths at which the root-to-node path of (level, u, v) carries a tile
TiledDepths(level, u, v) ==
    { n \in 0..level : PathTo(level, u, v, n) \in DOMAIN tileOf }

Max(S) == CHOOSE x \in S : \A y \in S : y <= x

\* the node of the deepest tile on that path, if there is one
DeepestTile(level, u, v) ==
    PathTo(level, u, v, Max(TiledDepths(level, u, v)))

\* the depth of a node below its root
Depth(node) == Len(node) - 1

\* the tile a node carries is empty, resident or failed
IsEmpty(t) == t.tex = NoTex /\ ~t.loadFailed

IsResident(t) == t.tex # NoTex

IsFailed(t) == t.loadFailed

\* x is a power of two
IsPowerOfTwo(x) == \E k \in 0..30 : x = Pow2(k)

\* the absolute addresses the requests of the model ask for
Probes == { <<r[1] + baseSplit, r[2], r[3]>> : r \in Requests }

\* the most recent call is a getTile call
IsGetTile == last.op = "getTile"

\* a/b = c/d
RatEq(a, b) == a[1] * b[2] = b[1] * a[2]

\* the absolute addresses of the requests that lie in the grid of their
\* level, for every B, and the nodes on the path of each of them
GridProbes ==
    { a \in { <<r[1] + b, r[2], r[3]>> : r \in Requests, b \in 0..MaxBaseSplit } :
         InGrid(a[1], a[2], a[3]) }

ProbePath ==
    [a \in GridProbes |-> [n \in 0..a[1] |-> PathTo(a[1], a[2], a[3], n)]]

\* the node of the deepest tile on the path of the address a, if there is one
Holder(a) ==
    LET ds == { n \in 0..a[1] : ProbePath[a][n] \in DOMAIN tileOf }
    IN  IF ds = {} THEN NoNode ELSE ProbePath[a][Max(ds)]

\* the absolute address a is one getTile looks up
Valid(a) == a \in GridProbes /\ a[1] < nResolutionLevels

\* no decode attempt is still to come for the absolute address a: it is
\* out of range, or has no tile on its path, or its tile was tried before
Settled(a) ==
    Valid(a) =>
       \A h \in {Holder(a)} : h # NoNode => ~IsEmpty(tileOf[h])

\* the descriptor the index holds for the absolute address a: that of the
\* texture of the deepest tile on its path, if there is one
Answer(a) ==
    IF ~Valid(a) THEN EmptyTile
    ELSE LET h == Holder(a)
         IN  IF h = NoNode THEN EmptyTile
             ELSE IF tileOf[h].tex = NoTex THEN EmptyTile
             ELSE SubRect(tileOf[h].tex.name, a[1], Depth(h), a[2], a[3])

\* a/b <= c/d and a/b + c/d, for positive denominators
RatLeq(a, b) == a[1] * b[2] <= b[1] * a[2]

RatAdd(a, b) == <<a[1] * b[2] + b[1] * a[2], a[2] * b[2]>>

\* the rectangles r and s have no inner point in common
Apart(r, s) ==
    \/ RatLeq(RatAdd(r.u, r.du), s.u) \/ RatLeq(RatAdd(s.u, s.du), r.u)
    \/ RatLeq(RatAdd(r.v, r.dv), s.v) \/ RatLeq(RatAdd(s.v, s.dv), r.v)

\* the rectangle r lies in the unit square
InUnitSquare(r) ==
    /\ RatLeq(<<0, 1>>, r.u) /\ RatLeq(RatAdd(r.u, r.du), <<1, 1>>)
    /\ RatLeq(<<0, 1>>, r.v) /\ RatLeq(RatAdd(r.v, r.dv), <<1, 1>>)

\* the int x is 2^k
EqualsPow2(x, k) == 0 <= k /\ k <= 30 /\ x = Pow2(k)

(***************************************************************************)
(* C1: getTile never fails, and a request whose absolute level lod+B is    *)
(* not in 0..L-1 or whose coordinates are outside the grid of that level   *)
(* (0 <= u < 2^(lod+B+1), 0 <= v < 2^(lod+B)) returns the empty descriptor *)
(***************************************************************************)
C1_OutOfRangeIsEmpty ==
    /\ ~err
    /\ IsGetTile /\ ~(last.absLod < nResolutionLevels
                      /\ InGrid(last.absLod, last.u, last.v))
          => last.result = EmptyTile

\* an out-of-range v above a root that carries a tile
C1_Witness ==
    /\ IsGetTile
    /\ last.absLod = 0 /\ last.u = 0 /\ last.v = 1
    /\ <<0>> \in DOMAIN tileOf
    /\ last.result = EmptyTile

(***************************************************************************)
(* C2: the lookup for an address a tile was inserted at ends on the tile   *)
(* of exactly that address, with matchedLevel equal to the level           *)
(***************************************************************************)
C2_InsertedIsFound ==
    /\ \A a \in addCalls :
          \A m \in {FindBestMatch(a.lod, a.u, a.v)} :
              /\ m.tile = PathTo(a.lod, a.u, a.v, a.lod)
              /\ m.tileLOD = a.lod
              /\ \E b \in addCalls :
                    /\ b.entry = tileOf[m.tile].entry
                    /\ <<b.lod, b.u, b.v>> = <<a.lod, a.u, a.v>>
    /\ IsGetTile /\ last.inRange
         /\ (\E a \in addCalls : <<a.lod, a.u, a.v>> = <<last.absLod, last.u, last.v>>)
          => /\ last.tileLOD = last.absLod
             /\ last.match = PathTo(last.absLod, last.u, last.v, last.absLod)

\* a request for an inserted address below another tile of the index
C2_Witness ==
    /\ IsGetTile /\ last.inRange
    /\ last.absLod >= 2
    /\ \E a \in addCalls : <<a.lod, a.u, a.v>> = <<last.absLod, last.u, last.v>>
    /\ Cardinality(TiledDepths(last.absLod, last.u, last.v)) >= 2

(***************************************************************************)
(* C3: for an address without a tile of its own, the lookup returns the    *)
(* deepest tile on its root-to-node path, with matchedLevel below the      *)
(* level, and no match only if no node of the path carries a tile          *)
(***************************************************************************)
C3_DeepestAncestor ==
    \* while the index is built and when it is complete: every probe address
    /\ last.op = "none" =>
         \A a \in Probes :
            InGrid(a[1], a[2], a[3]) =>
               \A d \in {TiledDepths(a[1], a[2], a[3])},
                  m \in {FindBestMatch(a[1], a[2], a[3])} :
                   /\ (m.tile = NoNode) <=> (d = {})
                   /\ d # {} => /\ m.tileLOD = Max(d)
                                /\ m.tile = PathTo(a[1], a[2], a[3], Max(d))
                   /\ d # {} /\ a[1] \notin d => m.tileLOD < a[1]
    \* every lookup getTile makes
    /\ IsGetTile /\ last.inRange =>
         \A d \in {TiledDepths(last.absLod, last.u, last.v)} :
            /\ (last.match = NoNode) <=> (d = {})
            /\ d # {} => /\ last.tileLOD = Max(d)
                         /\ last.match = PathTo(last.absLod, last.u, last.v, Max(d))
            /\ d # {} /\ last.absLod \notin d => last.tileLOD < last.absLod

\* a request that fell back past a missing level to the deeper of two tiles
C3_Witness ==
    /\ IsGetTile /\ last.inRange
    /\ last.match # NoNode
    /\ last.tileLOD < last.absLod
    /\ Cardinality(TiledDepths(last.absLod, last.u, last.v)) >= 2
    /\ last.tileLOD = Max(TiledDepths(last.absLod, last.u, last.v))

(***************************************************************************)
(* C4 as stated: with a tile at absolute level 3, position (5,2), and no   *)
(* tile at level 4, the request for (10,4) at absolute level 4 returns the *)
(* level-3 tile's identity with extent 1/2 x 1/2 and origin (0,0); the     *)
(* scenario is read with a level-3 tile whose load does not fail           *)
(***************************************************************************)
C4_Original ==
    /\ IsGetTile
    /\ last.absLod = 4 /\ last.u = 10 /\ last.v = 4
    /\ PathTo(3, 5, 2, 3) \in DOMAIN tileOf
    /\ ~IsFailed(tileOf[PathTo(3, 5, 2, 3)])
    /\ \A n \in DOMAIN tileOf : Depth(n) # 4
    => /\ last.result.texID # 0
       /\ last.result.texID = tileOf[PathTo(3, 5, 2, 3)].tex.name
       /\ RatEq(last.result.du, <<1, 2>>) /\ RatEq(last.result.dv, <<1, 2>>)
       /\ RatEq(last.result.u, <<0, 1>>) /\ RatEq(last.result.v, <<0, 1>>)

(***************************************************************************)
(* C4 as amended: a request at a level below L that is finer than every    *)
(* tile on its path is served the nearest coarser tile unless that tile's  *)
(* load fails; for (10,4) at absolute level 4 over the level-3 tile (5,2)  *)
(* the descriptor has extent 1/2 x 1/2 and origin (0,0)                    *)
(***************************************************************************)
C4_ServedFromCoarser ==
    IsGetTile /\ last.absLod < nResolutionLevels
              /\ InGrid(last.absLod, last.u, last.v) =>
       \A d \in {TiledDepths(last.absLod, last.u, last.v)} :
          d # {} /\ last.absLod \notin d =>
             \A t \in {tileOf[DeepestTile(last.absLod, last.u, last.v)]} :
                ~IsFailed(t) =>
                   /\ last.result.texID # 0
                   /\ last.result.texID = t.tex.name
                   /\ last.absLod = 4 /\ last.u = 10 /\ last.v = 4 /\ Max(d) = 3 =>
                         /\ RatEq(last.result.du, <<1, 2>>)
                         /\ RatEq(last.result.dv, <<1, 2>>)
                         /\ RatEq(last.result.u, <<0, 1>>)
                         /\ RatEq(last.result.v, <<0, 1>>)

\* the scenario: (10,4) at level 4 served from the level-3 tile (5,2)
C4_Witness ==
    /\ IsGetTile
    /\ last.absLod = 4 /\ last.u = 10 /\ last.v = 4
    /\ last.match = PathTo(3, 5, 2, 3)
    /\ \A n \in DOMAIN tileOf : Depth(n) # 4
    /\ last.result.texID # 0

(***************************************************************************)
(* C5: a non-empty descriptor for a request d levels below the matched     *)
(* tile has extent 1/2^d in both axes and origin                           *)
(* ((u mod 2^d)/2^d, (v mod 2^d)/2^d); for d = 0 it is (0,0,1,1)           *)
(***************************************************************************)
C5_SubRectangle ==
    IsGetTile /\ last.result.texID # 0 =>
       \A d \in {last.absLod - Max(TiledDepths(last.absLod, last.u, last.v))} :
          /\ d >= 0
          /\ RatEq(last.result.du, <<1, Pow2(d)>>)
          /\ RatEq(last.result.dv, <<1, Pow2(d)>>)
          /\ RatEq(last.result.u, <<last.u % Pow2(d), Pow2(d)>>)
          /\ RatEq(last.result.v, <<last.v % Pow2(d), Pow2(d)>>)
          /\ d = 0 => /\ RatEq(last.result.u, <<0, 1>>)
                      /\ RatEq(last.result.v, <<0, 1>>)
                      /\ RatEq(last.result.du, <<1, 1>>)
                      /\ RatEq(last.result.dv, <<1, 1>>)

\* a request one level below its tile, with odd u and v
C5_Witness ==
    /\ IsGetTile /\ last.result.texID # 0
    /\ last.absLod - last.tileLOD = 1
    /\ last.u = 11 /\ last.v = 5
    /\ RatEq(last.result.u, <<1, 2>>)

(***************************************************************************)
(* C6 as stated: when the deepest tile on a request's path has failed to   *)
(* load and a coarser tile on the same path is loadable, getTile serves    *)
(* the request from that coarser tile                                      *)
(***************************************************************************)
C6_Original ==
    IsGetTile /\ last.inRange =>
       \A d \in {TiledDepths(last.absLod, last.u, last.v)} :
          /\ d # {}
          /\ IsFailed(tileOf[DeepestTile(last.absLod, last.u, last.v)])
          /\ \E n \in d : IsResident(tileOf[PathTo(last.absLod, last.u, last.v, n)])
          => /\ last.result.texID # 0
             /\ \E n \in d :
                   last.result.texID =
                      tileOf[PathTo(last.absLod, last.u, last.v, n)].tex.name

(***************************************************************************)
(* C6 as amended: a decode failure disables only the failed tile: a        *)
(* request whose deepest tile has failed gets the empty descriptor, also   *)
(* when a coarser tile on its path is resident, and a request whose        *)
(* deepest tile is resident is served from it, whatever tiles below it     *)
(* have failed                                                             *)
(***************************************************************************)
C6_FailureIsPerTile ==
    IsGetTile /\ last.inRange =>
       \A d \in {TiledDepths(last.absLod, last.u, last.v)} :
          d # {} =>
             \A t \in {tileOf[DeepestTile(last.absLod, last.u, last.v)]} :
                /\ IsFailed(t) => last.result = EmptyTile
                /\ IsResident(t) =>
                      /\ last.result.texID = t.tex.name
                      /\ last.result.texID # 0
                      /\ RatEq(last.result.du, <<1, Pow2(last.absLod - Max(d))>>)

\* a coarser tile serves a request while a tile below it has failed
C6_Witness ==
    /\ IsGetTile /\ last.match # NoNode
    /\ last.result.texID # 0
    /\ \E f \in DOMAIN tileOf :
          /\ IsFailed(tileOf[f])
          /\ Len(f) > Len(last.match)
          /\ SubSeq(f, 1, Len(last.match)) = last.match

(***************************************************************************)
(* C7: the decoder is called at most once per tile: a request that matches *)
(* a tile leaves it with exactly one decode attempt made, whether that     *)
(* attempt succeeded or failed, and an empty tile has had none             *)
(***************************************************************************)
C7_DecodeOnce ==
    /\ \A n \in DOMAIN tileOf :
          /\ tileOf[n].loads <= 1
          /\ (tileOf[n].loads = 0) <=> IsEmpty(tileOf[n])
    /\ IsGetTile /\ last.match # NoNode => tileOf[last.match].loads = 1
    /\ IsGetTile /\ last.decoded => last.match # NoNode

\* in a later usage cycle, a request matches a failed tile without a decode
C7_Witness ==
    /\ IsGetTile /\ last.match # NoNode
    /\ ~last.decoded
    /\ ticks >= 1
    /\ IsFailed(tileOf[last.match])
    /\ tileOf[last.match].loads = 1

C10_ScanLoadRoundTrip ==
    IsGetTile /\ last.decoded =>
       \A e \in {CatalogFiles[tileOf[last.match].entry]},
          p \in {LoadPath(last.tileLOD, last.tileU, last.tileV)} :
          /\ p.dir = e.dir
          /\ sscanf(p.name, Pattern(tilePrefix)) = sscanf(e.name, Pattern(tilePrefix))

(***************************************************************************)
(* C11: getLODCount() is L - B; with B = 2 and the level directories 0, 1  *)
(* and 2 on disk, L is 3 and getLODCount() is 1                            *)
(***************************************************************************)
C11_Original ==
    pc = "ready" =>
       /\ getLODCount + baseSplit = nResolutionLevels
       /\ baseSplit = 2 /\ dirs = {0, 1, 2} =>
             nResolutionLevels = 3 /\ getLODCount = 1

\* C11 as the code has it: getLODCount() is L - B; with B = 2 and the level
\* directories 0, 1 and 2 on disk, L is 5 and getLODCount() is 3
C11_LODCount ==
    pc = "ready" =>
       /\ getLODCount + baseSplit = nResolutionLevels
       /\ baseSplit = 2 /\ dirs = {0, 1, 2} =>
             nResolutionLevels = 5 /\ getLODCount = 3

\* the manager built with B = 2 over the level directories 0, 1 and 2
C11_Witness ==
    /\ pc = "ready"
    /\ baseSplit = 2 /\ dirs = {0, 1, 2}
    /\ getLODCount = 3

(***************************************************************************)
(* C12: after construction L is 1 + the largest i + B over the existing    *)
(* directories level<i> with 0 <= i < 13, whatever gaps lie between them   *)
(* and whether or not they hold files, and L is 1 if there is none         *)
(***************************************************************************)
C12_DiscoveredLevels ==
    pc = "ready" =>
       \A S \in {{ i + baseSplit : i \in { n \in dirs : n < MaxResolutionLevels } }} :
          nResolutionLevels = IF S = {} THEN 1 ELSE 1 + Max(S)

\* level1 and level2 are missing and the last directory, level4, is empty
C12_Witness ==
    /\ pc = "ready"
    /\ dirs = {0, 3, 4}
    /\ \A f \in files : DirIndexOf(f) # 4
    /\ baseSplit >= 1
    /\ nResolutionLevels = 5 + baseSplit

(***************************************************************************)
(* C13: for every lod, getUTileCount(lod) is 2^(lod+B+1), twice            *)
(* getVTileCount(lod), and getVTileCount(lod) is 2^(lod+B); and for        *)
(* 0 <= lod < getLODCount(), getTile(lod, u, v) passes the validation of   *)
(* its coordinates iff 0 <= u < getUTileCount(lod) and                     *)
(* 0 <= v < getVTileCount(lod)                                             *)
(***************************************************************************)
C13_Original ==
    /\ last.op = "getUTileCount" =>
          /\ EqualsPow2(last.count, last.lod + baseSplit + 1)
          /\ \A vc \in getVTileCount(last.lod) : last.count = 2 * vc
    /\ last.op = "getVTileCount" =>
          EqualsPow2(last.count, last.lod + baseSplit)
    /\ IsGetTile /\ 0 <= last.lod /\ last.lod < getLODCount =>
          (last.inRange <=>
             \A uc \in getUTileCount(last.lod), vc \in getVTileCount(last.lod) :
                /\ 0 <= last.u /\ last.u < uc
                /\ 0 <= last.v /\ last.v < vc)

\* C13 as the code has it: the two counts are these powers of two for the
\* lod whose shift is defined, 0 <= lod+B <= 29 for getUTileCount and
\* 0 <= lod+B <= 30 for getVTileCount; the validation of getTile is as stated
C13_TileCounts ==
    /\ last.op = "getUTileCount"
          /\ 0 <= last.lod + baseSplit /\ last.lod + baseSplit <= 29 =>
          /\ EqualsPow2(last.count, last.lod + baseSplit + 1)
          /\ \A vc \in getVTileCount(last.lod) : last.count = 2 * vc
    /\ last.op = "getVTileCount"
          /\ 0 <= last.lod + baseSplit /\ last.lod + baseSplit <= 30 =>
          EqualsPow2(last.count, last.lod + baseSplit)
    /\ IsGetTile /\ 0 <= last.lod /\ last.lod < getLODCount =>
          (last.inRange <=>
             \A uc \in getUTileCount(last.lod), vc \in getVTileCount(last.lod) :
                /\ 0 <= last.u /\ last.u < uc
                /\ 0 <= last.v /\ last.v < vc)

\* getUTileCount asked for the finest level whose width fits an int
C13_Witness ==
    /\ last.op = "getUTileCount"
    /\ baseSplit >= 1
    /\ last.lod + baseSplit = 29
    /\ last.count = 2 * Pow2(29)

(***************************************************************************)
(* C14: once beginUsage has been called, tilesRequested is the number of   *)
(* getTile calls since the most recent beginUsage, whatever they returned, *)
(* and ticks is the number of beginUsage calls so far; ticks never         *)
(* decreases, and endUsage changes nothing                                 *)
(***************************************************************************)
C14_UsageCounters ==
    /\ [](beginCalls >= 1 => tilesRequested = getCalls /\ ticks = beginCalls)
    /\ [][/\ ticks' >= ticks
          /\ last'.op = "endUsage" =>
                UNCHANGED <<config, usage, pc, scanI, visited, maxLevel,
                            nResolutionLevels, nodes, tileOf, ticks,
                            tilesRequested, compressed, texNames, addCalls,
                            err>>]_vars

\* endUsage after a cycle with two requests, the second of them out of range
C14_Witness ==
    /\ last.op = "endUsage"
    /\ beginCalls = 1 /\ getCalls = 2 /\ tilesRequested = 2
    /\ \E n \in DOMAIN tileOf : tileOf[n].loads = 1

(***************************************************************************)
(* C15: the factory returns no manager iff a check of the configuration    *)
(* fails: ImageDirectory missing; BaseSplit missing, negative or not       *)
(* integral; TileSize missing, not integral, below 64 or not a power of    *)
(* two.  Otherwise it returns a manager, with the suffix "dds" and the     *)
(* prefix "tx_" where none is given; neither the catalog nor the decoder   *)
(* makes the construction fail                                             *)
(***************************************************************************)
C15_FactoryChecks ==
    pc # "create" =>
       \A bs \in {texParams.BaseSplit}, ts \in {texParams.TileSize} :
          /\ pc = "null" <=>
                \/ ~texParams.ImageDirectory.has
                \/ ~bs.has \/ bs.val[1] < 0 \/ bs.val[1] % bs.val[2] # 0
                \/ ~ts.has \/ ts.val[1] % ts.val[2] # 0
                \/ ts.val[1] < 64 * ts.val[2]
                \/ ~IsPowerOfTwo(ts.val[1] \div ts.val[2])
          /\ pc # "null" =>
                /\ pc \in {"scan", "ready"} /\ ~err
                /\ baseSplit * bs.val[2] = bs.val[1]
                /\ tileExt = <<".">> \o (IF texParams.TileType.has
                                         THEN texParams.TileType.val
                                         ELSE <<"d", "d", "s">>)
                /\ tilePrefix = (IF texParams.TilePrefix.has
                                 THEN texParams.TilePrefix.val
                                 ELSE <<"t", "x", "_">>)

\* a manager made with the default prefix and suffix over an empty catalog
C15_Witness ==
    /\ pc = "ready"
    /\ texParams.ImageDirectory.has
    /\ texParams.TileSize = Given(<<128, 1>>)
    /\ ~texParams.TileType.has /\ ~texParams.TilePrefix.has
    /\ tileExt = <<".", "d", "d", "s">> /\ tilePrefix = <<"t", "x", "_">>
    /\ dirs = {} /\ files = {}

(***************************************************************************)
(* C16: with B = 0, the file tx_7_3.dds in level1/ puts a tile into the    *)
(* index at absolute level 1, position (7,3), and the file tx_abc.dds in   *)
(* the same directory is skipped and adds nothing                          *)
(***************************************************************************)
C16_Original ==
    pc = "ready" /\ baseSplit = 0 /\ tilePrefix = TxPrefix /\ files = {6, 7} =>
       /\ \E a \in addCalls : a.entry = 6 /\ <<a.lod, a.u, a.v>> = <<1, 7, 3>>
       /\ \E n \in DOMAIN tileOf : tileOf[n].entry = 6
       /\ \A n \in DOMAIN tileOf : tileOf[n].entry # 7

\* C16 as the code has it: with B = 0 the position (7,3) is outside the
\* 4 x 2 grid of absolute level 1 and tx_7_3.dds adds nothing; with B = 1
\* the file puts a tile at absolute level 2, position (7,3); tx_abc.dds
\* adds nothing in either case
C16_ScanScenario ==
    pc = "ready" /\ tilePrefix = TxPrefix /\ files = {6, 7} =>
       /\ baseSplit = 0 =>
             addCalls = {} /\ tileOf = << >> /\ nodes = { <<0>>, <<1>> }
       /\ baseSplit = 1 =>
             /\ addCalls = {[lod |-> 2, u |-> 7, v |-> 3, entry |-> 6]}
             /\ DOMAIN tileOf = {PathTo(2, 7, 3, 2)}
             /\ tileOf[PathTo(2, 7, 3, 2)].entry = 6
       /\ \A n \in DOMAIN tileOf : tileOf[n].entry # 7
       /\ \A a \in addCalls : a.entry # 7

\* the manager built with B = 0 over level1/tx_7_3.dds and level1/tx_abc.dds
C16_Witness ==
    /\ pc = "ready" /\ baseSplit = 0 /\ tilePrefix = TxPrefix
    /\ files = {6, 7}
    /\ CatalogFiles[6] = [dir |-> <<"l", "e", "v", "e", "l", "1">>,
                          name |-> <<"t", "x", "_", "7", "_", "3", ".", "d", "d", "s">>]
    /\ CatalogFiles[7].name = <<"t", "x", "_", "a", "b", "c", ".", "d", "d", "s">>
    /\ nResolutionLevels = 2
    /\ tileOf = << >>

(***************************************************************************)
(* C17: if the prefix contains '%', the scan inserts no tile, the index    *)
(* stays two empty roots, and every getTile call returns the empty         *)
(* descriptor without calling the decoder, whatever directories and files  *)
(* exist                                                                   *)
(***************************************************************************)
C17_PercentPrefix ==
    (\E k \in 1..Len(tilePrefix) : tilePrefix[k] = "%") =>
       /\ addCalls = {}
       /\ tileOf = << >>
       /\ nodes = { <<0>>, <<1>> }
       /\ texNames = 0
       /\ IsGetTile => last.result = EmptyTile /\ ~last.decoded

\* a request within the levels of a catalog whose file names would have
\* matched the pattern made of the prefix
C17_Witness ==
    /\ tilePrefix = <<"t", "x", "_", "%", "d", "_", "%", "d", ".">>
    /\ \E f \in files :
          Len(sscanf(CatalogFiles[f].name,
                     tilePrefix \o <<"%", "d", "_", "%", "d", ".">>)) = 2
    /\ IsGetTile /\ last.inRange /\ last.absLod >= 2
    /\ last.result = EmptyTile

(***************************************************************************)
(* C18: all getTile calls for one address return the same descriptor,      *)
(* whatever is requested in between and whatever beginUsage and endUsage   *)
(* calls are made; the first decode attempt on the matched tile fixes it.  *)
(* Every call returns the descriptor the index holds for its address and   *)
(* leaves the address settled, and no step changes the descriptor of a     *)
(* settled address (the descriptor is a function of the index and of L, so *)
(* only the steps that change one of them are to be looked at)             *)
(***************************************************************************)
C18_ResponseStability ==
    /\ [](IsGetTile =>
            \A a \in {<<last.absLod, last.u, last.v>>} :
               Settled(a) /\ last.result = Answer(a))
    /\ [][pc = "ready" /\ <<nodes, tileOf, nResolutionLevels, baseSplit>>' #
                           <<nodes, tileOf, nResolutionLevels, baseSplit>> =>
             \A a \in Probes :
                Settled(a) => Settled(a)' /\ Answer(a)' = Answer(a)]_vars

\* a tile loaded in an earlier cycle serves a request again, after another
\* tile's load has failed
C18_Witness ==
    /\ IsGetTile /\ ~last.decoded /\ last.result # EmptyTile
    /\ tileOf[last.match].loads = 1
    /\ beginCalls >= 1 /\ getCalls >= 2
    /\ \E n \in DOMAIN tileOf : IsFailed(tileOf[n])

(***************************************************************************)
(* C19: getTile returns a descriptor other than the empty one only for     *)
(* 0 <= lod < getLODCount(): for a negative lod, also one whose absolute   *)
(* level lod+B passes the range check, and for lod >= getLODCount(), it    *)
(* returns the empty descriptor and makes no decode attempt                *)
(***************************************************************************)
C19_OnlyExposedLevels ==
    IsGetTile /\ (last.lod < 0 \/ last.lod >= getLODCount) =>
       /\ last.result = EmptyTile
       /\ ~last.decoded
       /\ last.match = NoNode

\* a request with lod = -1 passes the range check and is walked down a
\* root that has a tile below it
C19_Witness ==
    /\ IsGetTile /\ last.lod < 0 /\ last.inRange
    /\ \E n \in DOMAIN tileOf : n[1] = RootIndex(last.absLod, last.u)
    /\ last.result = EmptyTile

(***************************************************************************)
(* C20: inserting a tile at an address whose node already carries a tile   *)
(* leaves the index as it is: the node keeps the tile inserted first, in   *)
(* the state it is in, no node is added or removed, and no other node's    *)
(* tile changes                                                            *)
(***************************************************************************)
C20_FirstTileWins ==
    [][\A c \in addCalls' \ addCalls :
          PathTo(c.lod, c.u, c.v, c.lod) \in DOMAIN tileOf =>
             /\ nodes' = nodes
             /\ tileOf' = tileOf
             /\ tileOf'[PathTo(c.lod, c.u, c.v, c.lod)].entry # c.entry]_vars

\* tx_00_0.dds was found before tx_0_0.dds in the same directory
C20_Witness ==
    /\ \E c, d \in addCalls :
          /\ <<c.lod, c.u, c.v>> = <<d.lod, d.u, d.v>>
          /\ c.entry = 1 /\ d.entry = 2
          /\ tileOf[PathTo(c.lod, c.u, c.v, c.lod)].entry = 2
    /\ Cardinality(DOMAIN tileOf) = 1

C22_ScanRangeFilter ==
    \* while the index is built and when it is complete
    last.op = "none" =>
    /\ \A a \in addCalls : InGrid(a.lod, a.u, a.v)
    /\ \A n \in DOMAIN tileOf :
          \E a \in addCalls :
             /\ a.entry = tileOf[n].entry
             /\ a.lod = Depth(n)
             /\ n = PathTo(a.lod, a.u, a.v, a.lod)
    /\ nodes = { <<0>>, <<1>> } \cup
               UNION { PathNodes(a.lod, a.u, a.v) : a \in addCalls }
    /\ pc = "ready" =>
          \A f \in files :
             \A r \in {sscanf(CatalogFiles[f].name,
                              tilePrefix \o <<"%", "d", "_", "%", "d", ".">>)} :
                Len(r) = 2 /\ ~InGrid(DirIndexOf(f) + baseSplit, r[1], r[2]) =>
                   /\ \A a \in addCalls : a.entry # f
                   /\ \A n \in DOMAIN tileOf : tileOf[n].entry # f

\* the scan has passed over level1/tx_-1_0.dds
C22_Witness ==
    /\ pc = "ready" /\ tilePrefix = TxPrefix
    /\ \E f \in files :
          /\ CatalogFiles[f].name =
                <<"t", "x", "_", "-", "1", "_", "0", ".", "d", "d", "s">>
          /\ sscanf(CatalogFiles[f].name, Pattern(tilePrefix)) = <<-1, 0>>
    /\ tileOf = << >>
    /\ nodes = { <<0>>, <<1>> }

(***************************************************************************)
(* C23: a node carries a tile only at a depth l with B <= l <= B+12 whose  *)
(* directory level<l-B> exists; the nodes at depths below B, the roots     *)
(* among them when B > 0, carry none; and once the manager is constructed  *)
(* every tile's level is below L                                           *)
(***************************************************************************)
C23_TileDepths ==
    /\ \A n \in DOMAIN tileOf :
          /\ n \in nodes
          /\ baseSplit <= Depth(n)
          /\ Depth(n) <= baseSplit + (MaxResolutionLevels - 1)
          /\ IsDirectory(LevelDir(Depth(n) - baseSplit))
          /\ pc = "ready" => Depth(n) < nResolutionLevels
    /\ \A n \in nodes : Depth(n) < baseSplit => n \notin DOMAIN tileOf

\* with B = 2, tiles lie four and five levels below roots that carry none
C23_Witness ==
    /\ pc = "ready" /\ baseSplit = 2
    /\ { Depth(n) : n \in DOMAIN tileOf } = {4, 5}
    /\ \E n \in nodes : Depth(n) = 1
    /\ nResolutionLevels = 6

(***************************************************************************)
(* C24: for every node that carries a tile, the depth of the node below    *)
(* its root is the tile's absolute level minus B, so that the tiles of the *)
(* coarsest level on disk sit at the roots                                 *)
(***************************************************************************)
C24_Original ==
    \A n \in DOMAIN tileOf :
       \A level \in {DirIndexOf(tileOf[n].entry) + baseSplit} :
          /\ Depth(n) = level - baseSplit
          /\ DirIndexOf(tileOf[n].entry) = 0 => Depth(n) = 0

\* C24 as the code has it: the depth of the node is the tile's absolute
\* level, the number of its directory plus B, so that the tiles of level0
\* sit B levels below the roots
C24_DepthIsLevel ==
    \A n \in DOMAIN tileOf :
       \A level \in {DirIndexOf(tileOf[n].entry) + baseSplit} :
          /\ Depth(n) = level
          /\ DirIndexOf(tileOf[n].entry) = 0 => Depth(n) = baseSplit

\* with B = 2 the tile of level0/tx_0_0.dds sits two levels below its root
C24_Witness ==
    /\ pc = "ready" /\ baseSplit = 2
    /\ \E n \in DOMAIN tileOf :
          /\ CatalogFiles[tileOf[n].entry].dir = <<"l", "e", "v", "e", "l", "0">>
          /\ n = <<0, 0, 0>>

(***************************************************************************)
(* C25: when getTile matches, for a request at (l, u, v), a tile that was  *)
(* inserted at (l', u', v'), makeResident is called with that address:     *)
(* the matched level is l', u >> (l - l') is u' and v >> (l - l') is v'    *)
(***************************************************************************)
C25_ResidentAddress ==
    IsGetTile /\ last.match # NoNode =>
       \E a \in addCalls :
          /\ a.entry = tileOf[last.match].entry
          /\ last.match = PathTo(a.lod, a.u, a.v, a.lod)
          /\ last.tileLOD = a.lod
          /\ last.tileU = a.u /\ last.tileV = a.v
          /\ Shr(last.u, last.absLod - a.lod) = a.u
          /\ Shr(last.v, last.absLod - a.lod) = a.v

\* a request one level below the tile that serves it, at other coordinates
C25_Witness ==
    /\ IsGetTile /\ last.match # NoNode
    /\ last.absLod = last.tileLOD + 1
    /\ last.tileLOD >= 3
    /\ last.u # last.tileU /\ last.v # last.tileV
    /\ last.tileU = 5 /\ last.tileV = 2

(***************************************************************************)
(* C26: two different addresses (level, u, v) within the grids never reach *)
(* the same node: the node determines level, u and v.  So addTileToTree    *)
(* discards a tile only if an earlier tile had the same (level, u, v)      *)
(***************************************************************************)
C26_AddressingInjective ==
    /\ \A c, d \in addCalls :
          PathTo(c.lod, c.u, c.v, c.lod) = PathTo(d.lod, d.u, d.v, d.lod) =>
             <<c.lod, c.u, c.v>> = <<d.lod, d.u, d.v>>
    /\ \A c \in addCalls :
          \A n \in {PathTo(c.lod, c.u, c.v, c.lod)} :
             /\ n \in DOMAIN tileOf
             /\ Depth(n) = c.lod
             /\ tileOf[n].entry # c.entry =>
                   \E d \in addCalls :
                      /\ d.entry = tileOf[n].entry
                      /\ d.entry < c.entry
                      /\ <<d.lod, d.u, d.v>> = <<c.lod, c.u, c.v>>

\* two tiles inserted at addresses of one level that differ in v alone
C26_Witness ==
    \E c, d \in addCalls :
       /\ c.lod = 2 /\ d.lod = 2
       /\ c.u = d.u /\ c.v = 1 /\ d.v = 3
       /\ tileOf[PathTo(c.lod, c.u, c.v, c.lod)].entry = c.entry
       /\ tileOf[PathTo(d.lod, d.u, d.v, d.lod)].entry = d.entry

(***************************************************************************)
(* C27: for a matched tile and a level difference d, the sub-rectangles    *)
(* getTile returns for the 4^d addresses below the tile at that difference *)
(* lie in the unit square, do not overlap, and cover it: they are 4^d      *)
(* rectangles of extent 1/2^d by 1/2^d, and the one returned is among them *)
(***************************************************************************)
C27_SubRectsTile ==
    IsGetTile /\ last.result # EmptyTile =>
       \A n \in {Pow2(last.absLod - last.tileLOD)} :
       \A R \in {{ SubRect(last.result.texID, last.absLod, last.tileLOD,
                           last.tileU * n + i, last.tileV * n + j) :
                      i \in 0..(n - 1), j \in 0..(n - 1) }} :
          /\ last.result \in R
          /\ Cardinality(R) = n * n
          /\ \A r \in R :
                /\ InUnitSquare(r)
                /\ RatEq(r.du, <<1, n>>) /\ RatEq(r.dv, <<1, n>>)
                /\ \A q \in R : q # r => Apart(q, r)

\* a request served by a tile two levels above it
C27_Witness ==
    /\ IsGetTile /\ last.result # EmptyTile
    /\ last.absLod - last.tileLOD = 2
    /\ RatEq(last.result.du, <<1, 4>>)

(***************************************************************************)
(* C28: the index does not depend on the order of the insertions: the      *)
(* nodes and the nodes that carry a tile are determined by the set of the  *)
(* addresses inserted, in whatever order and however often each was        *)
(***************************************************************************)
C28_OrderIndependent ==
    \A A \in {{ <<c.lod, c.u, c.v>> : c \in addCalls }} :
       /\ nodes = { <<0>>, <<1>> } \cup
                  UNION { { PathTo(a[1], a[2], a[3], n) : n \in 0..a[1] } : a \in A }
       /\ DOMAIN tileOf = { PathTo(a[1], a[2], a[3], a[1]) : a \in A }

\* a tile was inserted below the root after a tile two levels below it
C28_Witness ==
    \E c, d \in addCalls :
       /\ c.entry = 1 /\ c.lod = 2
       /\ d.entry = 2 /\ d.lod = 0
       /\ PathTo(c.lod, c.u, c.v, 0) = PathTo(d.lod, d.u, d.v, 0)
       /\ Cardinality(DOMAIN tileOf) = 2

(***************************************************************************)
(* C29: the texture of a tile is created with mip-maps iff the tile is of  *)
(* the coarsest level, that of directory level0; the tiles of all finer    *)
(* levels are created without, for every B                                 *)
(***************************************************************************)
C29_MipMapsAtCoarsest ==
    \A n \in DOMAIN tileOf :
       IsResident(tileOf[n]) =>
          (tileOf[n].tex.mipmaps <=> DirIndexOf(tileOf[n].entry) = 0)

(***************************************************************************)
(* C30 as stated: the compressed flag changes only in a getTile call that  *)
(* makes a tile resident, to the flag of that tile's image; a load that    *)
(* fails leaves it as it was                                               *)
(***************************************************************************)
C30_Original ==
    [][IF getCalls' = getCalls + 1 /\ last'.decoded /\ last'.result # EmptyTile
       THEN compressed' = last'.image.compressed
       ELSE compressed' = compressed]_vars

(***************************************************************************)
(* C30: the compressed flag changes only in a getTile call whose tile file *)
(* was decoded, to the flag of the decoded image, whether or not a texture *)
(* was made of it (an image rejected for its dimensions sets the flag      *)
(* too); a call whose file could not be decoded, one that loads nothing    *)
(* and every other operation leave it as it was                            *)
(***************************************************************************)
C30_CompressedFlag ==
    [][IF getCalls' = getCalls + 1 /\ last'.decoded /\ last'.image # NoImage
       THEN compressed' = last'.image.compressed
       ELSE compressed' = compressed]_vars

\* a load has failed for the dimensions of its image, which was compressed,
\* and the flag is set
C30_Witness ==
    /\ IsGetTile /\ last.decoded /\ last.image # NoImage
    /\ ~(isPow2(last.image.width) /\ isPow2(last.image.height))
    /\ last.result = EmptyTile
    /\ last.image.compressed /\ compressed
    /\ \E n \in DOMAIN tileOf : IsResident(tileOf[n])

(***************************************************************************)
(* C31: for every base split the factory accepts and every catalog, one    *)
(* without level directories included, getLODCount() is not negative       *)
(***************************************************************************)
C31_LODCountNotNegative ==
    pc = "ready" => getLODCount >= 0

(***************************************************************************)
(* C32: for every base split the factory accepts and every absolute level  *)
(* l < L, the limits 2 << l and 1 << l of the scan and of the range check  *)
(* of getTile, and the counts getUTileCount and getVTileCount return for   *)
(* the exposed levels, are the grid sizes 2^(l+1) and 2^l: no shift leaves *)
(* the 32-bit int                                                          *)
(***************************************************************************)
C32_LimitsFit ==
    /\ pc = "ready" =>
          \A l \in 0..(nResolutionLevels - 1) :
             /\ \A uLimit \in ShlOutcomes(2, l) : EqualsPow2(uLimit, l + 1)
             /\ \A vLimit \in ShlOutcomes(1, l) : EqualsPow2(vLimit, l)
    /\ last.op = "getUTileCount" /\ 0 <= last.lod /\ last.lod < getLODCount =>
          EqualsPow2(last.count, last.lod + baseSplit + 1)
    /\ last.op = "getVTileCount" /\ 0 <= last.lod /\ last.lod < getLODCount =>
          EqualsPow2(last.count, last.lod + baseSplit)

(***************************************************************************)
(* C33: the assertion of loadTileTexture holds in every call getTile      *)
(* makes of it, for every B and every catalog: the level number the shift  *)
(* has left is below MaxResolutionLevels                                   *)
(***************************************************************************)
C33_LoadAssertion ==
    IsGetTile /\ last.decoded =>
       0 <= last.level /\ last.level < MaxResolutionLevels

(***************************************************************************)
(* C34: isPow2(x) is true iff x is a power of two, for every int x of a    *)
(* range that holds 0 and negative numbers                                 *)
(***************************************************************************)
C34_IsPowerOfTwo ==
    last.op = "isPow2" => (last.pow2 <=> IsPowerOfTwo(last.x))

====
